---- MODULE Spec2Model ----
(***************************************************************************)
(* State-machine model of the two scripts of the repository:               *)
(*   .github/scripts/generate-docs.js  (the documentation generator)       *)
(*   Sync-GitRepo                       (the PowerShell sync helper)        *)
(* A behaviour is one run of one of the two scripts.                       *)
(***************************************************************************)
EXTENDS Integers, Sequences, FiniteSets, TLC

VARIABLES
    script,          \* "docs" | "sync": which script this run executes
    pc,              \* position of generate-docs.js
    credentials,     \* AZURE_OPENAI_ENDPOINT / AZURE_OPENAI_API_KEY present?
    forceAll,        \* process.env.FORCE_ALL === 'true'
    disk,            \* file system below Documentation/: path -> content
    allSourceFiles,  \* result of findSourceFiles()
    changedFiles,    \* result of getChangedFiles()
    filesToProcess,  \* result of getFilesNeedingDocumentation()
    idx,             \* position of the for..of loop in filesToProcess
    content,         \* content read from the current file
    processContent,  \* content handed to analyzeCode
    documentation,   \* value returned by analyzeCode
    inflight,        \* API requests issued and not yet answered
    results,         \* the results list
    exitCode,        \* exit code of the node process: 0 unless process.exit(1) ran
    attempted,       \* history: files whose loop iteration has begun
    nRequests,       \* history: API requests issued per file
    nWrites,         \* history: documentation writes issued per file
    written,         \* history: files whose documentation write succeeded
    delayed,         \* history: the delay ran since the last API request
    sentUndelayed,   \* history: a request was issued with no delay since the previous one
    summaryWrites,   \* history: writes of SUMMARY.md by generateSummary
    skipped,         \* history: files skipped for their size
    gitOutcome,      \* history: how `git diff` ended: "none" | "ok" | "error"
    apiFailed,       \* history: files whose API request threw
    fatalError,      \* the error handed to the top-level catch handler, or "none"
    spc,             \* position of Sync-GitRepo
    errorAction,     \* $ErrorActionPreference of the caller
    nativeErrors,    \* $PSNativeCommandUseErrorActionPreference of the caller
    cwd,             \* current location of the PowerShell session
    commands,        \* history: git commands run, with the location they ran in
    hostOut,         \* history: Write-Host messages
    errorStream      \* history: errors raised by the steps, in order

docsVars == <<pc, credentials, forceAll, disk, allSourceFiles, changedFiles,
              filesToProcess, idx, content, processContent, documentation,
              inflight, results, exitCode, attempted, nRequests, nWrites,
              written, delayed, sentUndelayed, summaryWrites, skipped,
              gitOutcome, apiFailed, fatalError>>
syncVars == <<spc, errorAction, nativeErrors, cwd, commands, hostOut, errorStream>>
vars == <<script, docsVars, syncVars>>

----------------------------------------------------------------------------
(* Bounds and program constants *)

MaxFiles == 2          \* longest list findSourceFiles returns in the model

MinLength == 10        \* content.length < 10 is skipped
TruncateLength == 100000
MaxLength == 200000    \* content.length > 200000 is skipped

\* Content lengths a file may have: the boundary values of the three thresholds.
Lengths == {MinLength - 1, MinLength, TruncateLength, TruncateLength + 1,
            MaxLength, MaxLength + 1}

----------------------------------------------------------------------------
(* Paths.  A path is [dirs: sequence of directory names, name: sequence of  *)
(* the dot-separated parts of the file name]; src/a.js is                   *)
(* [dirs |-> <<"src">>, name |-> <<"a", "js">>].                            *)

Path(dirs, name) == [dirs |-> dirs, name |-> name]

\* the extensions of the regular expression of lines 147 and 258
Extensions == {"js", "ts", "py", "java", "go", "rs", "ps1", "psm1", "sh", "bash",
               "cpp", "c", "cs", "rb", "php", "kt", "swift", "yml", "yaml"}

\* The source files that may exist in the work tree: two that differ in
\* their extension only, and a third.
SourceUniverse == { Path(<<"src">>, <<"a", "js">>),
                    Path(<<"src">>, <<"a", "ts">>),
                    Path(<<>>, <<"b", "py">>) }

Last(s) == s[Len(s)]
Front(s) == SubSeq(s, 1, Len(s) - 1)

\* file.replace(/\.(js|ts|...)$/, '.md')
ReplaceExtension(file) ==
    IF Len(file.name) >= 2 /\ Last(file.name) \in Extensions
    THEN Path(file.dirs, Front(file.name) \o <<"md">>)
    ELSE file

\* path.join('Documentation', p)
JoinDocumentation(p) == Path(<<"Documentation">> \o p.dirs, p.name)

\* the docPath of a source file (lines 147 and 258)
DocPath(file) == JoinDocumentation(ReplaceExtension(file))

\* 'Documentation/SUMMARY.md' (line 308)
SummaryPath == Path(<<"Documentation">>, <<"SUMMARY", "md">>)

DiskPaths == {DocPath(f) : f \in SourceUniverse} \cup {SummaryPath}

Absent == [kind |-> "absent"]
Old == [kind |-> "old"]      \* a file left by an earlier run

\* fs.access(docPath) succeeds
Exists(d, p) == d[p].kind # "absent"

----------------------------------------------------------------------------
(* Values *)

Null == [kind |-> "null"]

\* the text of a file: `len` characters starting at character `first` of file `of`
Text(file, first, len) == [kind |-> "text", of |-> file, first |-> first, len |-> len]

Min(a, b) == IF a <= b THEN a ELSE b

\* content.substring(start, end), for 0 <= start <= end
Substring(c, start, end) ==
    Text(c.of, c.first + Min(start, c.len), Min(end, c.len) - Min(start, c.len))

\* content.length < 10 (line 238)
TooSmall(c) == c.len < MinLength

\* content.length > 200000 (line 243)
TooLarge(c) == c.len > MaxLength

\* (mutant: the truncation tests the wrong threshold)
TruncatedAtMaxLength(c) ==
    IF c.len > MaxLength THEN Substring(c, 0, TruncateLength) ELSE c

\* lines 248-252
Truncated(c) ==
    IF c.len > TruncateLength THEN Substring(c, 0, TruncateLength) ELSE c

\* what analyzeCode returns; `if (documentation)` holds for a non-empty string only
Documentation(file, empty) == [kind |-> "doc", of |-> file, empty |-> empty]
Truthy(d) == d.kind = "doc" /\ ~d.empty

Success(file, docPath) == [file |-> file, docPath |-> docPath, success |-> TRUE]
Failure(file, error) == [file |-> file, success |-> FALSE, error |-> error]

Range(s) == {s[i] : i \in 1..Len(s)}

\* the lists without repetition, of length at most n, over the set S
Lists(S, n) ==
    {s \in UNION {[1..k -> S] : k \in 0..n} :
        \A i, j \in 1..Len(s) : i # j => s[i] # s[j]}

IsSuccess(r) == r.success
IsFailure(r) == ~r.success

----------------------------------------------------------------------------
(* getFilesNeedingDocumentation, lines 136-166 *)

\* line 146
WasChanged(file, changed) == file \in changed

\* lines 147-155
DocExists(file, d) == Exists(d, DocPath(file))

\* (mutant: `&&` for `||`)
NeedsDocumentationBoth(file, changed, d) ==
    WasChanged(file, changed) /\ ~DocExists(file, d)

\* line 157
NeedsDocumentation(file, changed, d) ==
    WasChanged(file, changed) \/ ~DocExists(file, d)

\* line 160
Reason(file, changed) ==
    IF WasChanged(file, changed) THEN "changed" ELSE "missing-docs"

Entry(file, reason) == [file |-> file, reason |-> reason]

FilesNeedingDocumentation(all, force, changed, d) ==
    IF force
    THEN [i \in 1..Len(all) |-> Entry(all[i], "forced")]
    ELSE LET stale == SelectSeq(all, LAMBDA f : NeedsDocumentation(f, changed, d))
         IN  [i \in 1..Len(stale) |-> Entry(stale[i], Reason(stale[i], changed))]

----------------------------------------------------------------------------
(* generateSummary, lines 283-309: the text written to SUMMARY.md *)

\* (mutant: the failed list is not filtered)
SummaryOfUnfiltered(res) ==
    LET successful == SelectSeq(res, IsSuccess)
        failed == res
    IN  [kind |-> "summary",
         total |-> Len(res),
         successful |-> Len(successful),
         failed |-> Len(failed),
         generated |-> [i \in 1..Len(successful) |-> successful[i].docPath],
         failedFiles |-> [i \in 1..Len(failed) |-> <<failed[i].file, "error">>]]

SummaryOf(res) ==
    LET successful == SelectSeq(res, IsSuccess)
        failed == SelectSeq(res, IsFailure)
    IN  [kind |-> "summary",
         total |-> Len(res),
         successful |-> Len(successful),
         failed |-> Len(failed),
         generated |-> [i \in 1..Len(successful) |-> successful[i].docPath],
         failedFiles |-> [i \in 1..Len(failed) |->
                             <<failed[i].file, failed[i].error>>]]

----------------------------------------------------------------------------
(* generate-docs.js: the run *)

NoCount == [f \in SourceUniverse |-> 0]

\* the node process has ended
Terminated == pc = "done"

\* an API request was issued earlier in this run
AnyRequestSent == \E f \in SourceUniverse : nRequests[f] > 0

\* the file of the current loop iteration
Current == filesToProcess[idx].file

\* line 312-315: generateDocumentation().catch(error => process.exit(1))
Fatal(error) ==
    /\ fatalError' = error
    /\ exitCode' = 1
    /\ pc' = "done"

\* generateDocumentation returns; the process ends with the default exit code
Return ==
    /\ pc' = "done"
    /\ UNCHANGED <<exitCode, fatalError>>

\* (mutant: the next iteration starts without the delay)
ToNextFile == pc' = "loop" /\ idx' = idx + 1 /\ UNCHANGED delayed

\* lines 273-274 are reached: the 1 second timer is started
ToDelay == pc' = "delay" /\ UNCHANGED <<idx, delayed>>

\* lines 13-18: new AzureOpenAI({...}) at module load.  With the credentials
\* missing the constructor of the openai package either throws, which ends
\* the process before generateDocumentation is called, or yields a client
\* whose requests all fail.
CreateClient ==
    /\ script = "docs" /\ pc = "start"
    /\ \/ pc' = "mkdir" /\ UNCHANGED <<exitCode, fatalError>>
       \/ ~credentials /\ Fatal("client")
    /\ UNCHANGED <<credentials, forceAll, gitOutcome, apiFailed, disk, allSourceFiles, changedFiles,
                   filesToProcess, idx, content, processContent, documentation,
                   inflight, results, attempted, nRequests, nWrites, written,
                   delayed, sentUndelayed, summaryWrites, skipped>>
    /\ UNCHANGED <<script, syncVars>>

\* line 201: await fs.mkdir('Documentation', { recursive: true })
MakeDocumentationDir ==
    /\ script = "docs" /\ pc = "mkdir"
    /\ \/ pc' = "find" /\ UNCHANGED <<exitCode, fatalError>>
       \/ Fatal("mkdir")
    /\ UNCHANGED <<credentials, forceAll, gitOutcome, apiFailed, disk, allSourceFiles, changedFiles,
                   filesToProcess, idx, content, processContent, documentation,
                   inflight, results, attempted, nRequests, nWrites, written,
                   delayed, sentUndelayed, summaryWrites, skipped>>
    /\ UNCHANGED <<script, syncVars>>

\* lines 204-209: findSourceFiles() answers; an empty list ends the run
FindSourceFiles ==
    /\ script = "docs" /\ pc = "find"
    /\ \E files \in Lists(SourceUniverse, MaxFiles) :
          /\ allSourceFiles' = files
          /\ IF Len(files) = 0 THEN Return
             ELSE pc' = "changes" /\ UNCHANGED <<exitCode, fatalError>>
    /\ UNCHANGED <<credentials, forceAll, gitOutcome, apiFailed, disk, changedFiles,
                   filesToProcess, idx, content, processContent, documentation,
                   inflight, results, attempted, nRequests, nWrites, written,
                   delayed, sentUndelayed, summaryWrites, skipped>>
    /\ UNCHANGED <<script, syncVars>>

\* line 204: glob rejects
FindSourceFilesError ==
    /\ script = "docs" /\ pc = "find"
    /\ Fatal("glob")
    /\ UNCHANGED <<credentials, forceAll, gitOutcome, apiFailed, disk, allSourceFiles, changedFiles,
                   filesToProcess, idx, content, processContent, documentation,
                   inflight, results, attempted, nRequests, nWrites, written,
                   delayed, sentUndelayed, summaryWrites, skipped>>
    /\ UNCHANGED <<script, syncVars>>

\* the sets of paths `git diff --name-only HEAD~1 HEAD` may print
GitDiffOutputs == SUBSET SourceUniverse

\* lines 122-134: getChangedFiles: the set git printed, or the empty set when
\* execSync throws
GetChangedFiles(git, printed) == IF git = "error" THEN {} ELSE printed

\* lines 137-166: getFilesNeedingDocumentation(allSourceFiles); with FORCE_ALL
\* getChangedFiles is not called
GetFilesNeedingDocumentation ==
    /\ script = "docs" /\ pc = "changes"
    /\ IF forceAll
       THEN /\ UNCHANGED <<gitOutcome, changedFiles>>
            /\ filesToProcess' =
                  FilesNeedingDocumentation(allSourceFiles, TRUE, {}, disk)
       ELSE \E git \in {"ok", "error"} :
            \E printed \in (IF git = "ok" THEN GitDiffOutputs ELSE {{}}) :
               /\ gitOutcome' = git
               /\ changedFiles' = GetChangedFiles(git, printed)
               /\ filesToProcess' =
                     FilesNeedingDocumentation(allSourceFiles, FALSE,
                                               GetChangedFiles(git, printed), disk)
    /\ pc' = "selected"
    /\ UNCHANGED <<credentials, forceAll, apiFailed, disk, allSourceFiles,
                   idx, content, processContent, documentation,
                   inflight, results, exitCode, attempted, nRequests, nWrites,
                   written, delayed, sentUndelayed, summaryWrites, skipped,
                   fatalError>>
    /\ UNCHANGED <<script, syncVars>>

\* (mutant: no early return when nothing is selected)
StartLoopAlways ==
    /\ script = "docs" /\ pc = "selected"
    /\ changedFiles' = {}
    /\ pc' = "loop" /\ idx' = 1 /\ UNCHANGED <<exitCode, fatalError>>
    /\ UNCHANGED <<credentials, forceAll, gitOutcome, apiFailed, disk, allSourceFiles,
                   filesToProcess, content, processContent, documentation,
                   inflight, results, attempted, nRequests, nWrites, written,
                   delayed, sentUndelayed, summaryWrites, skipped>>
    /\ UNCHANGED <<script, syncVars>>

\* lines 213-229: the processing summary is logged; nothing to do ends the
\* run, otherwise the loop starts.  changedFiles was a local of
\* getFilesNeedingDocumentation and is gone.
StartLoop ==
    /\ script = "docs" /\ pc = "selected"
    /\ changedFiles' = {}
    /\ IF Len(filesToProcess) = 0 THEN Return /\ UNCHANGED idx
       ELSE pc' = "loop" /\ idx' = 1 /\ UNCHANGED <<exitCode, fatalError>>
    /\ UNCHANGED <<credentials, forceAll, gitOutcome, apiFailed, disk, allSourceFiles,
                   filesToProcess, content, processContent, documentation,
                   inflight, results, attempted, nRequests, nWrites, written,
                   delayed, sentUndelayed, summaryWrites, skipped>>
    /\ UNCHANGED <<script, syncVars>>

\* the loop is at the top of an iteration (line 231)
AtFile == script = "docs" /\ pc = "loop" /\ idx <= Len(filesToProcess)

\* (mutant: a read error is logged but not recorded)
ReadFileErrorUnrecorded ==
    /\ AtFile
    /\ attempted' = Append(attempted, Current)
    /\ ToDelay
    /\ content' = Null /\ processContent' = Null /\ documentation' = Null
    /\ UNCHANGED <<credentials, forceAll, gitOutcome, apiFailed, disk, allSourceFiles,
                   changedFiles, filesToProcess, inflight, results, exitCode,
                   nRequests, nWrites, written, sentUndelayed, summaryWrites,
                   skipped, fatalError>>
    /\ UNCHANGED <<script, syncVars>>

\* line 235 rejects: caught at line 268, recorded, then the delay
ReadFileError ==
    /\ AtFile
    /\ attempted' = Append(attempted, Current)
    /\ results' = Append(results, Failure(Current, "read error"))
    /\ ToDelay
    /\ content' = Null /\ processContent' = Null /\ documentation' = Null
    /\ UNCHANGED <<credentials, forceAll, gitOutcome, apiFailed, disk, allSourceFiles, changedFiles,
                   filesToProcess, inflight, exitCode, nRequests, nWrites,
                   written, sentUndelayed, summaryWrites, skipped,
                   fatalError>>
    /\ UNCHANGED <<script, syncVars>>

\* lines 235-246: the file is read and is too small or too large: `continue`
SkipFile ==
    /\ AtFile
    /\ \E len \in Lengths :
          LET c == Text(Current, 0, len) IN
          /\ TooSmall(c) \/ TooLarge(c)
          /\ content' = c
    /\ attempted' = Append(attempted, Current)
    /\ skipped' = skipped \cup {Current}
    /\ idx' = idx + 1
    /\ processContent' = Null /\ documentation' = Null
    /\ UNCHANGED <<pc, credentials, forceAll, gitOutcome, apiFailed, disk, allSourceFiles, changedFiles,
                   filesToProcess, inflight, results, exitCode, nRequests, nWrites,
                   written, delayed, sentUndelayed, summaryWrites, fatalError>>
    /\ UNCHANGED <<script, syncVars>>

\* lines 235-255 and 47-64: the file is read, passes the size checks, is
\* truncated if large, and analyzeCode issues the request
SendRequest ==
    /\ AtFile
    /\ \E len \in Lengths :
          LET c == Text(Current, 0, len) IN
          /\ ~TooSmall(c) /\ ~TooLarge(c)
          /\ content' = c
          /\ processContent' = Truncated(c)
          /\ inflight' = inflight \cup {[file |-> Current, content |-> Truncated(c)]}
    /\ attempted' = Append(attempted, Current)
    /\ nRequests' = [nRequests EXCEPT ![Current] = @ + 1]
    /\ sentUndelayed' = (sentUndelayed \/ (AnyRequestSent /\ ~delayed))
    /\ delayed' = FALSE
    /\ pc' = "await"
    /\ documentation' = Null
    /\ UNCHANGED <<credentials, forceAll, gitOutcome, apiFailed, disk, allSourceFiles, changedFiles,
                   filesToProcess, idx, results, exitCode, nWrites, written,
                   summaryWrites, skipped, fatalError>>
    /\ UNCHANGED <<script, syncVars>>

\* how a request can end: the call throws (line 87), the response has no
\* choices (line 85), the first choice has no content, or it has content
ApiOutcomes == {"error", "noChoices", "noContent", "content"}

\* lines 62-94: the value analyzeCode returns for each outcome
AnalyzeCodeResult(file, outcome) ==
    CASE outcome = "error" -> Null
      [] outcome = "noChoices" -> Null
      [] outcome = "noContent" -> Documentation(file, TRUE)
      [] outcome = "content" -> Documentation(file, FALSE)

\* (mutant: analyzeCode lets the API error through and nothing catches it)
ApiResponseThrows ==
    /\ script = "docs" /\ pc = "await"
    /\ \E req \in inflight :
          /\ inflight' = inflight \ {req}
          /\ apiFailed' = apiFailed \cup {req.file}
    /\ Fatal("api")
    /\ UNCHANGED <<credentials, forceAll, gitOutcome, disk, allSourceFiles,
                   changedFiles, filesToProcess, idx, content, processContent,
                   documentation, results, attempted, nRequests, nWrites, written,
                   delayed, sentUndelayed, summaryWrites, skipped>>
    /\ UNCHANGED <<script, syncVars>>

\* lines 64-94 and 255-267: the request is answered; analyzeCode returns and
\* the loop body goes on to the next await
ApiResponse ==
    /\ script = "docs" /\ pc = "await"
    /\ \E req \in inflight :
       \E outcome \in (IF credentials THEN ApiOutcomes ELSE {"error"}) :
          LET doc == AnalyzeCodeResult(req.file, outcome) IN
          /\ inflight' = inflight \ {req}
          /\ apiFailed' = IF outcome = "error" THEN apiFailed \cup {req.file}
                          ELSE apiFailed
          /\ documentation' = doc
          /\ IF Truthy(doc)
             THEN pc' = "mkdirDoc" /\ UNCHANGED <<results, idx, delayed>>
             ELSE /\ results' = Append(results,
                                   Failure(req.file, "No documentation generated"))
                  /\ ToDelay
    /\ UNCHANGED <<credentials, forceAll, gitOutcome, disk, allSourceFiles, changedFiles,
                   filesToProcess, content, processContent, exitCode,
                   attempted, nRequests, nWrites, written,
                   sentUndelayed, summaryWrites, skipped, fatalError>>
    /\ UNCHANGED <<script, syncVars>>

\* (mutant: an error of the directory creation ends the loop)
MakeDocDirBreaks ==
    /\ script = "docs" /\ pc = "mkdirDoc"
    /\ \/ pc' = "write" /\ UNCHANGED <<results, idx, delayed>>
       \/ /\ results' = Append(results, Failure(Current, "mkdir error"))
          /\ pc' = "loop" /\ idx' = Len(filesToProcess) + 1
          /\ UNCHANGED delayed
    /\ UNCHANGED <<credentials, forceAll, gitOutcome, apiFailed, disk, allSourceFiles,
                   changedFiles, filesToProcess, content, processContent,
                   documentation, inflight, exitCode, attempted, nRequests,
                   nWrites, written, sentUndelayed, summaryWrites, skipped,
                   fatalError>>
    /\ UNCHANGED <<script, syncVars>>

\* line 259: await fs.mkdir(path.dirname(docPath), { recursive: true });
\* a rejection is caught at line 268
MakeDocDir ==
    /\ script = "docs" /\ pc = "mkdirDoc"
    /\ \/ pc' = "write" /\ UNCHANGED <<results, idx, delayed>>
       \/ /\ results' = Append(results, Failure(Current, "mkdir error"))
          /\ ToDelay
    /\ UNCHANGED <<credentials, forceAll, gitOutcome, apiFailed, disk, allSourceFiles, changedFiles,
                   filesToProcess, content, processContent, documentation,
                   inflight, exitCode, attempted, nRequests, nWrites, written,
                   sentUndelayed, summaryWrites, skipped, fatalError>>
    /\ UNCHANGED <<script, syncVars>>

\* lines 260-263: await fs.writeFile(docPath, documentation), then the
\* success record; a rejection is caught at line 268
WriteDocumentation ==
    /\ script = "docs" /\ pc = "write"
    /\ nWrites' = [nWrites EXCEPT ![Current] = @ + 1]
    /\ \/ /\ disk' = [disk EXCEPT ![DocPath(Current)] = documentation]
          /\ written' = written \cup {Current}
          /\ results' = Append(results, Success(Current, DocPath(Current)))
       \/ /\ results' = Append(results, Failure(Current, "write error"))
          /\ UNCHANGED <<disk, written>>
    /\ ToDelay
    /\ UNCHANGED <<credentials, forceAll, gitOutcome, apiFailed, allSourceFiles, changedFiles,
                   filesToProcess, content, processContent, documentation,
                   inflight, exitCode, attempted, nRequests,
                   sentUndelayed, summaryWrites, skipped, fatalError>>
    /\ UNCHANGED <<script, syncVars>>

\* lines 273-275: the timer fires and the loop moves to the next file; the
\* locals of the loop body are gone
Delay ==
    /\ script = "docs" /\ pc = "delay"
    /\ delayed' = TRUE
    /\ idx' = idx + 1
    /\ pc' = "loop"
    /\ content' = Null /\ processContent' = Null /\ documentation' = Null
    /\ UNCHANGED <<credentials, forceAll, gitOutcome, apiFailed, disk, allSourceFiles, changedFiles,
                   filesToProcess,
                   inflight, results, exitCode, attempted, nRequests, nWrites,
                   written, sentUndelayed, summaryWrites, skipped, fatalError>>
    /\ UNCHANGED <<script, syncVars>>

\* lines 277-281 and 283-309: after the loop generateSummary writes SUMMARY.md;
\* a rejection of the write leaves generateDocumentation
GenerateSummary ==
    /\ script = "docs" /\ pc = "loop" /\ idx > Len(filesToProcess)
    /\ \/ /\ disk' = [disk EXCEPT ![SummaryPath] = SummaryOf(results)]
          /\ summaryWrites' = summaryWrites + 1
          /\ Return
       \/ /\ Fatal("summary")
          /\ UNCHANGED <<disk, summaryWrites>>
    /\ UNCHANGED <<credentials, forceAll, gitOutcome, apiFailed, allSourceFiles, changedFiles,
                   filesToProcess, idx, content, processContent, documentation,
                   inflight, results, attempted, nRequests, nWrites,
                   written, delayed, sentUndelayed, skipped>>
    /\ UNCHANGED <<script, syncVars>>

DocsNext ==
    \/ CreateClient
    \/ MakeDocumentationDir
    \/ FindSourceFiles
    \/ FindSourceFilesError
    \/ GetFilesNeedingDocumentation
    \/ StartLoop
    \/ ReadFileError
    \/ SkipFile
    \/ SendRequest
    \/ ApiResponse
    \/ MakeDocDir
    \/ WriteDocumentation
    \/ Delay
    \/ GenerateSummary

----------------------------------------------------------------------------
(* Sync-GitRepo *)

RepoPath == "RepoPath"        \* the location $RepoPath names
CallerLocation == "caller"    \* the location the function is called from

Fetch == "git fetch origin"
Reset == "git reset --hard origin/Branch"
Pull == "git pull origin Branch"

FetchingMessage == "Fetching latest changes..."
ResettingMessage == "Resetting to origin/Branch..."
PullingMessage == "Pulling latest changes..."
CompleteMessage == "Repository sync complete!"
ErrorMessage == "Error syncing repository"

\* an error record: the step that raised it and the git commands run by then
Error(step, ran) == [step |-> step, commandsRun |-> Len(ran)]

\* lines 22-24: the catch block prints the error; the function returns
Catch(printed) ==
    /\ hostOut' = printed \o <<ErrorMessage>>
    /\ spc' = "done"

\* does a failure of Set-Location (an error record of a cmdlet) terminate the
\* try block?  Only under $ErrorActionPreference = 'Stop'.
CmdletErrorTerminates == errorAction = "Stop"

\* does a non-zero exit code of git raise an error record, and does it
\* terminate the try block?
NativeErrorRaised == nativeErrors
NativeErrorTerminates == nativeErrors /\ errorAction = "Stop"

\* line 10: Set-Location $RepoPath
SetLocation ==
    /\ script = "sync" /\ spc = "cd"
    /\ \/ /\ cwd' = RepoPath
          /\ spc' = "fetch"
          /\ UNCHANGED <<hostOut, errorStream>>
       \/ /\ errorStream' = Append(errorStream, Error("Set-Location", commands))
          /\ UNCHANGED cwd
          /\ IF CmdletErrorTerminates
             THEN Catch(hostOut)
             ELSE spc' = "fetch" /\ UNCHANGED hostOut
    /\ UNCHANGED <<errorAction, nativeErrors, commands>>
    /\ UNCHANGED <<script, docsVars>>

\* one `Write-Host ...; git ...` pair of lines 11-18: git runs and exits with
\* 0, runs and exits with another code, or cannot be started at all
GitStep(at, message, command, next) ==
    /\ script = "sync" /\ spc = at
    /\ \/ /\ commands' = Append(commands, [command |-> command, location |-> cwd])
          /\ hostOut' = Append(hostOut, message)
          /\ spc' = next
          /\ UNCHANGED errorStream
       \/ /\ commands' = Append(commands, [command |-> command, location |-> cwd])
          /\ errorStream' = IF NativeErrorRaised
                            THEN Append(errorStream, Error(command, commands'))
                            ELSE errorStream
          /\ IF NativeErrorTerminates
             THEN Catch(Append(hostOut, message))
             ELSE hostOut' = Append(hostOut, message) /\ spc' = next
       \/ /\ errorStream' = Append(errorStream, Error(command, commands))
          /\ Catch(Append(hostOut, message))
          /\ UNCHANGED commands
    /\ UNCHANGED <<errorAction, nativeErrors, cwd>>
    /\ UNCHANGED <<script, docsVars>>

\* lines 11-12
GitFetch == GitStep("fetch", FetchingMessage, Fetch, "reset")

\* lines 14-15
GitReset == GitStep("reset", ResettingMessage, Reset, "pull")

\* lines 17-18
GitPull == GitStep("pull", PullingMessage, Pull, "complete")

\* line 20
SyncComplete ==
    /\ script = "sync" /\ spc = "complete"
    /\ hostOut' = Append(hostOut, CompleteMessage)
    /\ spc' = "done"
    /\ UNCHANGED <<errorAction, nativeErrors, cwd, commands, errorStream>>
    /\ UNCHANGED <<script, docsVars>>

SyncNext ==
    \/ SetLocation
    \/ GitFetch
    \/ GitReset
    \/ GitPull
    \/ SyncComplete

----------------------------------------------------------------------------
(* The specification *)

DocsIdle ==
    /\ allSourceFiles = <<>> /\ changedFiles = {} /\ filesToProcess = <<>>
    /\ idx = 1
    /\ content = Null /\ processContent = Null /\ documentation = Null
    /\ inflight = {} /\ results = <<>> /\ exitCode = 0
    /\ attempted = <<>> /\ nRequests = NoCount /\ nWrites = NoCount
    /\ written = {} /\ delayed = FALSE /\ sentUndelayed = FALSE
    /\ summaryWrites = 0 /\ skipped = {}
    /\ gitOutcome = "none" /\ apiFailed = {} /\ fatalError = "none"

SyncIdle ==
    /\ cwd = CallerLocation /\ commands = <<>> /\ hostOut = <<>>
    /\ errorStream = <<>>

\* a run of generate-docs.js: the environment and the Documentation tree an
\* earlier run left
DocsInit ==
    /\ script = "docs" /\ pc = "start"
    /\ credentials \in BOOLEAN
    /\ forceAll \in BOOLEAN
    /\ disk \in [DiskPaths -> {Absent, Old}]
    /\ DocsIdle
    /\ spc = "idle" /\ errorAction = "Continue" /\ nativeErrors = FALSE
    /\ SyncIdle

\* a call of Sync-GitRepo
SyncInit ==
    /\ script = "sync" /\ spc = "cd"
    /\ errorAction \in {"Continue", "Stop"}
    /\ nativeErrors \in BOOLEAN
    /\ SyncIdle
    /\ pc = "idle" /\ credentials = FALSE /\ forceAll = FALSE
    /\ disk = [p \in DiskPaths |-> Absent]
    /\ DocsIdle

Init == DocsInit \/ SyncInit

Next == DocsNext \/ SyncNext

Spec == Init /\ [][Next]_vars

----------------------------------------------------------------------------
(* Notions the properties share *)

\* the files selected for processing, in list order
SelectedFiles == [i \in 1..Len(filesToProcess) |-> filesToProcess[i].file]
Selected == Range(SelectedFiles)

RecordsOf(f) == SelectSeq(results, LAMBDA r : r.file = f)
SuccessesOf(f) == SelectSeq(results, LAMBDA r : r.file = f /\ r.success)
FailuresOf(f) == SelectSeq(results, LAMBDA r : r.file = f /\ ~r.success)

\* the loop of generateDocumentation has run to its end
LoopOver ==
    /\ script = "docs" /\ pc \in {"loop", "done"}
    /\ Len(filesToProcess) > 0 /\ idx > Len(filesToProcess)

----------------------------------------------------------------------------
(* C1 *)

\* C1 as stated: after the loop every selected file whose processing did not
\* end in a success record -- skipped for its size included -- has exactly one
\* result record with success = FALSE.
C1_AsStated ==
    LoopOver =>
        \A f \in Selected :
            Len(SuccessesOf(f)) = 0 => Len(FailuresOf(f)) = 1

\* C1 (amended): after the loop every selected file that was not skipped for
\* its size has exactly one result record, which is a success record exactly
\* when its documentation write succeeded and a success = FALSE record
\* otherwise (read error, API error, empty response, mkdir or write error);
\* a file skipped as too small or too large has no result record at all.
C1_FailuresRecorded ==
    LoopOver =>
        \A f \in Selected :
            /\ f \in skipped => Len(RecordsOf(f)) = 0
            /\ f \notin skipped => Len(RecordsOf(f)) = 1
            /\ f \notin skipped /\ f \notin written => Len(FailuresOf(f)) = 1
            /\ f \in written => Len(SuccessesOf(f)) = 1
            /\ f \in apiFailed => Len(FailuresOf(f)) = 1

\* a run with a skipped file and a failed file
C1_Witness ==
    /\ LoopOver /\ pc = "done"
    /\ skipped # {}
    /\ \E f \in apiFailed : Len(FailuresOf(f)) = 1

----------------------------------------------------------------------------
(* C2 *)

\* C2: right after selection a source file is selected iff FORCE_ALL is set,
\* or it is in the changed set, or no file exists at its documentation path;
\* the reason is 'forced', 'changed' or 'missing-docs' accordingly; the list
\* keeps the order of the source list; and when git fails the changed set is
\* empty, so exactly the files without documentation are selected.
C2_Selection ==
    (script = "docs" /\ pc = "selected") =>
        /\ \A f \in Range(allSourceFiles) :
              f \in Selected <=>
                 (forceAll \/ f \in changedFiles \/ disk[DocPath(f)] = Absent)
        /\ Selected \subseteq Range(allSourceFiles)
        /\ \A i \in 1..Len(filesToProcess) :
              filesToProcess[i].reason =
                 IF forceAll THEN "forced"
                 ELSE IF filesToProcess[i].file \in changedFiles THEN "changed"
                 ELSE "missing-docs"
        /\ \A i, j \in 1..Len(filesToProcess) :
              i < j => \E k, l \in 1..Len(allSourceFiles) :
                          /\ k < l
                          /\ allSourceFiles[k] = filesToProcess[i].file
                          /\ allSourceFiles[l] = filesToProcess[j].file
        /\ gitOutcome = "error" =>
              /\ changedFiles = {}
              /\ Selected = {f \in Range(allSourceFiles) : disk[DocPath(f)] = Absent}

\* an unchanged documented file is left out while a changed one and an
\* undocumented one are selected
C2_Witness ==
    /\ script = "docs" /\ pc = "selected" /\ ~forceAll
    /\ \E f \in Range(allSourceFiles) :
          f \notin changedFiles /\ disk[DocPath(f)] = Old /\ f \notin Selected
    /\ \E i \in 1..Len(filesToProcess) : filesToProcess[i].reason = "changed"

----------------------------------------------------------------------------
(* C3 *)

\* C3: a file read successfully causes an API request iff its length L has
\* 10 <= L <= 200000; the request carries the whole content when L <= 100000
\* and its first 100000 characters otherwise, never more than 100000
\* characters; a file with L < 10 or L > 200000 causes no request and no
\* documentation write.
C3_SizeLimits ==
    /\ \A req \in inflight :
          /\ req.content.len <= 100000
          /\ req.content.of = req.file /\ req.content.first = 0
    /\ (script = "docs" /\ content # Null) =>
          LET f == content.of
              L == content.len
          IN  /\ (10 <= L /\ L <= 200000) => nRequests[f] = 1
              /\ (L < 10 \/ L > 200000) => nRequests[f] = 0 /\ nWrites[f] = 0
              /\ pc = "await" =>
                    inflight = {[file |-> f,
                                 content |-> Text(f, 0, IF L <= 100000 THEN L
                                                        ELSE 100000)]}
    /\ \A f \in SourceUniverse : nWrites[f] <= nRequests[f]

\* a file of 100001 characters is sent as its first 100000
C3_Witness ==
    /\ pc = "await" /\ content # Null /\ content.len = 100001
    /\ \E req \in inflight : req.content.len = 100000

----------------------------------------------------------------------------
(* C4 *)

\* the summary generateSummary wrote is on disk
SummaryWritten ==
    script = "docs" /\ pc = "done" /\ summaryWrites = 1

\* C4 as stated: 'Successfully documented' is the number of selected files
\* whose documentation was written in this run, 'Failed' the number of the
\* other selected files, and 'Total files processed' their sum, equal to the
\* number of files selected.
C4_AsStated ==
    SummaryWritten =>
        LET summary == disk[SummaryPath] IN
        /\ summary.successful = Cardinality(written)
        /\ summary.failed = Cardinality(Selected \ written)
        /\ summary.total = summary.successful + summary.failed
        /\ summary.total = Cardinality(Selected)

\* C4 (amended): 'Successfully documented' is the number of selected files
\* whose documentation was written in this run, 'Failed' the number of
\* selected files that were neither written nor skipped for their size, and
\* 'Total files processed' their sum, which is the number of files selected
\* minus the number skipped as too small or too large.
C4_SummaryCounts ==
    SummaryWritten =>
        LET summary == disk[SummaryPath] IN
        /\ summary.kind = "summary"
        /\ summary.successful = Cardinality(written)
        /\ summary.failed = Cardinality(Selected \ (written \cup skipped))
        /\ summary.total = summary.successful + summary.failed
        /\ summary.total = Cardinality(Selected) - Cardinality(skipped)
        /\ Len(summary.generated) = summary.successful
        /\ Len(summary.failedFiles) = summary.failed

\* a summary counting one success and one failure
C4_Witness ==
    /\ SummaryWritten
    /\ disk[SummaryPath].kind = "summary"
    /\ disk[SummaryPath].successful = 1 /\ disk[SummaryPath].failed = 1

----------------------------------------------------------------------------
(* C5 *)

\* the API request of every selected file threw
ApiFailedForAll == Selected # {} /\ apiFailed = Selected

\* C5 as stated: a run in which the API fails for every file ends with exit
\* code 1; so does a run in which an error escapes generateDocumentation,
\* and it processes nothing further; the exit code is 1 in no other run.
C5_AsStated ==
    /\ (Terminated /\ ApiFailedForAll) => exitCode = 1
    /\ fatalError # "none" => exitCode = 1 /\ Terminated /\ ~ENABLED Next
    /\ exitCode = 1 => fatalError # "none" \/ ApiFailedForAll

\* C5 (amended): the process ends with exit code 1 exactly when the client
\* constructor throws at load time or an error escapes generateDocumentation
\* (directory creation, file discovery, summary write), and then nothing
\* further is processed; a failing API request is never fatal: even when the
\* request of every selected file fails, each failure is recorded, the loop
\* runs to its end, and the run ends with exit code 0 unless the summary
\* write fails.
C5_FatalExit ==
    /\ fatalError # "none" => exitCode = 1 /\ Terminated /\ ~ENABLED Next
    /\ exitCode = 1 => fatalError \in {"client", "mkdir", "glob", "summary"}
    /\ (Terminated /\ fatalError = "none") => exitCode = 0
    /\ fatalError \in {"client", "mkdir", "glob"} =>
          attempted = <<>> /\ results = <<>>
    /\ fatalError = "summary" => LoopOver
    /\ (Terminated /\ apiFailed # {}) =>
          /\ LoopOver
          /\ \A f \in apiFailed : Len(FailuresOf(f)) = 1
          /\ summaryWrites = 1 => exitCode = 0

\* the API failed for both selected files and the run ended with exit code 0
C5_Witness ==
    /\ Terminated /\ ApiFailedForAll /\ Cardinality(Selected) = 2
    /\ exitCode = 0 /\ summaryWrites = 1

----------------------------------------------------------------------------
(* C6 *)

\* the number of files whose loop iteration has ended
Completed == Len(results) + Cardinality(skipped)

\* C6: at most one API request is outstanding, and it belongs to the current
\* file; the iteration of a file has ended (record appended or file skipped)
\* before the next file is read; and no request is issued without the delay
\* having run since the previous request.
C6_Sequential ==
    /\ Cardinality(inflight) <= 1
    /\ inflight # {} => pc = "await" /\ \A req \in inflight : req.file = Current
    /\ ~sentUndelayed
    /\ (script = "docs" /\ pc = "loop") =>
          /\ Len(attempted) = idx - 1 /\ Completed = idx - 1
          /\ AnyRequestSent => delayed
    /\ (script = "docs" /\ pc \in {"await", "mkdirDoc", "write"}) =>
          Len(attempted) = idx /\ Completed = idx - 1
    /\ (script = "docs" /\ pc = "delay") =>
          Len(attempted) = idx /\ Completed = idx

\* a second request is outstanding after the first one failed
C6_Witness ==
    /\ pc = "await" /\ idx = 2 /\ Cardinality(inflight) = 1
    /\ apiFailed # {}
    /\ Cardinality({f \in SourceUniverse : nRequests[f] = 1}) = 2

----------------------------------------------------------------------------
(* C7 *)

\* C7: the files attempted so far are a prefix of the selected list, in
\* order; no file gets more than one request, one documentation write or one
\* result record; and a run that entered the loop ends only after every
\* selected file was attempted, whatever failed or was skipped before it.
C7_OnceEach ==
    /\ Len(attempted) <= Len(SelectedFiles)
    /\ attempted = SubSeq(SelectedFiles, 1, Len(attempted))
    /\ \A f \in SourceUniverse :
          /\ nRequests[f] <= 1 /\ nWrites[f] <= 1
          /\ nRequests[f] > 0 => f \in Range(attempted)
          /\ Len(RecordsOf(f)) <= 1
    /\ (Terminated /\ Selected # {}) => attempted = SelectedFiles

\* the first file failed or was skipped and the second was documented
C7_Witness ==
    /\ Terminated /\ Len(attempted) = 2
    /\ attempted[1] \notin written /\ attempted[2] \in written

----------------------------------------------------------------------------
(* C8 *)

\* C8 as stated: the git commands run in the order fetch, reset, pull, each
\* at most once and only in RepoPath; after a step has raised an error no
\* further git command runs, and the function ends with the error message
\* printed last; the completion message is printed only when no error was
\* caught.
C8_AsStated ==
    script = "sync" =>
        /\ Len(commands) <= 3
        /\ \A i \in 1..Len(commands) :
              /\ commands[i].command = <<Fetch, Reset, Pull>>[i]
              /\ commands[i].location = RepoPath
        /\ \A i \in 1..Len(errorStream) :
              /\ Len(commands) = errorStream[i].commandsRun
              /\ spc = "done" => Last(hostOut) = ErrorMessage
        /\ CompleteMessage \in Range(hostOut) => ErrorMessage \notin Range(hostOut)

----------------------------------------------------------------------------
(* C9 *)

\* the documentation files written in this run
DocsWritten == {DocPath(f) : f \in written}

\* C9 as stated: distinct source files have distinct documentation paths, so
\* until the summary is written every file documented in this run still has
\* its own documentation on disk, and the number of documentation files
\* written equals the number of success records.
C9_AsStated ==
    script = "docs" =>
        /\ summaryWrites = 0 =>
              \A f \in written : disk[DocPath(f)] = Documentation(f, FALSE)
        /\ Cardinality(DocsWritten) = Len(SelectSeq(results, IsSuccess))

----------------------------------------------------------------------------
(* C10 *)

\* C10 as stated: a run that selected a file has written SUMMARY.md exactly
\* once when it ends, and a run that selected none has not written it; the
\* write is the last step of the run; and after every run that ends without
\* a fatal error SUMMARY.md describes that run.
C10_AsStated ==
    /\ summaryWrites <= 1
    /\ Terminated => summaryWrites = (IF Selected # {} THEN 1 ELSE 0)
    /\ summaryWrites = 1 => Terminated /\ inflight = {}
    /\ (Terminated /\ fatalError = "none") =>
          disk[SummaryPath] = SummaryOf(results)

\* C10 (amended): generateSummary writes SUMMARY.md at most once, only after
\* the loop over a non-empty selection has ended, as the last step of the
\* run; every run that selected a file and ends without a fatal error has
\* written it exactly once, and SUMMARY.md then describes that run; a run in
\* which the summary write fails ends fatally without a new summary; and a
\* run that found no source file or selected none writes no summary, so
\* SUMMARY.md stays as the earlier runs left it.
C10_Summary ==
    /\ summaryWrites <= 1
    /\ summaryWrites = 1 =>
          /\ Terminated /\ LoopOver /\ fatalError = "none"
          /\ inflight = {} /\ attempted = SelectedFiles
          /\ ~ENABLED Next
    /\ (Terminated /\ fatalError = "none" /\ Selected # {}) =>
          /\ summaryWrites = 1
          /\ disk[SummaryPath] = SummaryOf(results)
    /\ fatalError = "summary" => summaryWrites = 0 /\ LoopOver
    /\ (Terminated /\ Selected = {}) =>
          /\ summaryWrites = 0
          /\ disk[SummaryPath] \in {Absent, Old}

\* a run over two files has ended and left its summary
C10_Witness ==
    /\ Terminated /\ summaryWrites = 1 /\ Cardinality(Selected) = 2
    /\ disk[SummaryPath] = SummaryOf(results)
    /\ Len(results) = 2

====
